---- MODULE Spec2Model ----
(***************************************************************************)
(* The TD-learning player of agent.h (class player) over the 4x4 board of  *)
(* the 2048 framework: move selection (take_action), the trajectory        *)
(* (history) and the backward TD(0) pass (close_episode) on the n-tuple    *)
(* weight tables (net).                                                    *)
(*                                                                         *)
(* Numbers of type float are fixed-point: an integer v stands for v/Unit.  *)
(* Sums and differences are exact; a product is rounded toward zero to the *)
(* resolution 1/Unit.                                                      *)
(***************************************************************************)
EXTENDS Integers, Sequences, FiniteSets, TLC

\* ---- bounds of the exploration -----------------------------------------
MaxRank == 1        \* ranks of the tiles of the boards given to take_action
MaxCalls == 2       \* take_action calls made on the player
MaxTrain == 1       \* close_episode calls that run the TD pass

\* ---- float ---------------------------------------------------------------
Unit == 64          \* one whole, in fixed-point units
ToFloat(i) == i * Unit
\* conversion float -> int: truncation toward zero
ToInt(v) == IF v >= 0 THEN v \div Unit ELSE -((-v) \div Unit)
\* float product of two fixed-point values
Mul(a, b) == IF a * b >= 0 THEN (a * b) \div Unit ELSE -((-(a * b)) \div Unit)

\* ---- board (board.h is not among the sources: modelled from spec.md) ----
Cells == 0..15
EmptyBoard == [c \in Cells |-> 0]

RECURSIVE Pow2(_)
Pow2(n) == IF n = 0 THEN 1 ELSE 2 * Pow2(n - 1)

\* step 1 and 3 of the line algorithm: drop the empty cells
Nonzero(x) == x # 0
Compress(s) == SelectSeq(s, Nonzero)
Pad(s) == s \o [k \in 1..(4 - Len(s)) |-> 0]

\* variant: a merged tile takes part in the next comparison
RECURSIVE MergeLineCascade(_)
MergeLineCascade(s) ==
  IF Len(s) < 2 THEN [line |-> s, reward |-> 0]
  ELSE IF s[1] = s[2]
       THEN LET r == MergeLineCascade(<<s[1] + 1>> \o Tail(Tail(s)))
            IN [line |-> r.line, reward |-> Pow2(s[1] + 1) + r.reward]
       ELSE LET r == MergeLineCascade(Tail(s))
            IN [line |-> <<s[1]>> \o r.line, reward |-> r.reward]

\* step 2: scan toward the far end, merge each equal adjacent pair once
RECURSIVE MergeLine(_)
MergeLine(s) ==
  IF Len(s) < 2 THEN [line |-> s, reward |-> 0]
  ELSE IF s[1] = s[2]
       THEN LET r == MergeLine(Tail(Tail(s)))
            IN [line |-> <<s[1] + 1>> \o r.line,
                reward |-> Pow2(s[1] + 1) + r.reward]
       ELSE LET r == MergeLine(Tail(s))
            IN [line |-> <<s[1]>> \o r.line, reward |-> r.reward]

SlideLine(s) ==
  LET m == MergeLine(Compress(s))
  IN [line |-> Pad(Compress(m.line)), reward |-> m.reward]

\* the cells of line k (0..3) of direction op, nearest to the destination
\* edge first: 0 up, 1 right, 2 down, 3 left
\* variant: direction 3 scans the rows from the wrong end
LineCellsLeftAsRight(op, k) ==
  CASE op = 0 -> <<k, k + 4, k + 8, k + 12>>
    [] op = 1 -> <<4 * k + 3, 4 * k + 2, 4 * k + 1, 4 * k>>
    [] op = 2 -> <<k + 12, k + 8, k + 4, k>>
    [] op = 3 -> <<4 * k + 3, 4 * k + 2, 4 * k + 1, 4 * k>>

LineCells(op, k) ==
  CASE op = 0 -> <<k, k + 4, k + 8, k + 12>>
    [] op = 1 -> <<4 * k + 3, 4 * k + 2, 4 * k + 1, 4 * k>>
    [] op = 2 -> <<k + 12, k + 8, k + 4, k>>
    [] op = 3 -> <<4 * k, 4 * k + 1, 4 * k + 2, 4 * k + 3>>

\* variant: a move without merge is reported illegal
SlideZeroIsIllegal(b, op) ==
  LET lines == [k \in 0..3 |->
                  SlideLine([j \in 1..4 |-> b[LineCells(op, k)[j]]])]
      moved == [c \in Cells |->
                  LET k == CHOOSE k \in 0..3 :
                             \E j \in 1..4 : LineCells(op, k)[j] = c
                      j == CHOOSE j \in 1..4 : LineCells(op, k)[j] = c
                  IN lines[k].line[j]]
      total == lines[0].reward + lines[1].reward + lines[2].reward + lines[3].reward
  IN [after |-> moved, reward |-> IF total = 0 THEN -1 ELSE total]

\* board::slide(op): the board after the move and its reward, -1 if illegal
Slide(b, op) ==
  LET res == [k \in 0..3 |->
                SlideLine([j \in 1..4 |-> b[LineCells(op, k)[j]]])]
      nb == [c \in Cells |->
               LET k == CHOOSE k \in 0..3 :
                          \E j \in 1..4 : LineCells(op, k)[j] = c
                   j == CHOOSE j \in 1..4 : LineCells(op, k)[j] = c
               IN res[k].line[j]]
      score == res[0].reward + res[1].reward + res[2].reward + res[3].reward
  IN [after |-> nb, reward |-> IF nb = b THEN -1 ELSE score]

\* ---- action (action.h is not among the sources: modelled from spec.md) --
NoAction == [type |-> "none"]
ActionSlide(op) == [type |-> "slide", op |-> op]
ActionPlace(pos, tile) == [type |-> "place", pos |-> pos, tile |-> tile]

\* ---- inputs ---------------------------------------------------------------
\* a full board on which no direction is legal
FullBoard == [c \in Cells |-> 1 + ((c + (c \div 4)) % 2)]
\* the boards given to take_action: tiles of rank <= MaxRank in the first two
\* cells of the first row, and the full board
Boards ==
  {[c \in Cells |-> IF c = 0 THEN x ELSE IF c = 1 THEN y ELSE 0] :
     x \in 0..MaxRank, y \in 0..MaxRank} \cup {FullBoard}

\* ---- rndenv::take_action ------------------------------------------------------
\* orders std::shuffle may leave in `space`: the rotations of 0..15, so that
\* every cell comes first in some order
Orders == {[j \in 1..16 |-> (k + j - 1) % 16] : k \in 0..15}
\* the values popup(engine) draws, uniform on 0..9
Popups == 0..9

\* the loop of rndenv::take_action over the shuffled positions, from the j-th on
RECURSIVE rndenvScan(_, _, _, _)
rndenvScan(after, space, popup, j) ==
  IF j > Len(space) THEN NoAction
  ELSE IF after[space[j]] # 0 THEN rndenvScan(after, space, popup, j + 1)
  ELSE ActionPlace(space[j], IF popup # 0 THEN 1 ELSE 2)

\* variant: the scan does not skip occupied cells
rndenv_take_actionAnyCell(after, space, popup) ==
  ActionPlace(space[1], IF popup # 0 THEN 1 ELSE 2)
rndenv_take_action(after, space, popup) == rndenvScan(after, space, popup, 1)

\* ---- the boards of an episode ---------------------------------------------------
\* board::place: the tile is put on the cell
Place(b, pos, tile) == [b EXCEPT ![pos] = tile]
\* the grids an episode starts from: two tiles of rank <= MaxRank on an
\* empty board
StartCells == {<<0, 1>>, <<5, 10>>, <<3, 12>>}
StartGrids ==
  {[c \in Cells |-> IF c = q[1] THEN x ELSE IF c = q[2] THEN y ELSE 0] :
     q \in StartCells, x \in 1..MaxRank, y \in 1..MaxRank}
\* a grid late in an episode: the full board but for its last cell
NearFull == [FullBoard EXCEPT ![15] = 0]
\* the random choices of the environment followed in an episode
GameOrders == {[j \in 1..16 |-> (k + j - 1) % 16] : k \in {0, 10}}
GamePopups == {0, 1}
\* the grids the environment may leave from grid b
EnvMoves(b) ==
  {Place(b, a.pos, a.tile) :
     a \in {e \in {rndenv_take_action(b, space, popup) :
                     space \in GameOrders, popup \in GamePopups} : e.type = "place"}}
\* the grids the player may be given within k more rounds, from those of S
RECURSIVE GameReach(_, _)
GameReach(S, k) ==
  IF k = 0 THEN S
  ELSE S \cup GameReach(UNION {EnvMoves(Slide(b, op).after) : b \in S, op \in 0..3}, k - 1)
GameBoards == GameReach(StartGrids \cup EnvMoves(NearFull), MaxCalls - 1)

\* the result of board::slide on each of the boards given to take_action
SlideOf == [b \in Boards \cup GameBoards |-> [op \in 0..3 |-> Slide(b, op)]]
AfterBoards == {SlideOf[b][op].after : b \in Boards, op \in 0..3}

\* ---- n-tuple network --------------------------------------------------------
\* the 8 tuple patterns of estimate_value / adjust_value, one per table
Tuples ==
  [i \in 0..7 |->
     CASE i = 0 -> <<0, 1, 2, 3>>
       [] i = 1 -> <<4, 5, 6, 7>>
       [] i = 2 -> <<8, 9, 10, 11>>
       [] i = 3 -> <<12, 13, 14, 15>>
       [] i = 4 -> <<0, 4, 8, 12>>
       [] i = 5 -> <<1, 5, 9, 13>>
       [] i = 6 -> <<2, 6, 10, 14>>
       [] i = 7 -> <<3, 7, 11, 15>>]

\* variant: the ranks are packed in base 16
extract_featureBase16(after, a, b, c, d) ==
  after[a] * 16 * 16 * 16 + after[b] * 16 * 16 + after[c] * 16 + after[d]

extract_feature(after, a, b, c, d) ==
  after[a] * 25 * 25 * 25 + after[b] * 25 * 25 + after[c] * 25 + after[d]

Feature(after, i) ==
  extract_feature(after, Tuples[i][1], Tuples[i][2], Tuples[i][3], Tuples[i][4])

\* the entries of a table that the boards of the exploration can index; the
\* other entries of the 25^4 are never read or written
Features == {Feature(b, i) : b \in AfterBoards, i \in 0..7}

estimate_value(n, after) ==
  n[0][Feature(after, 0)] + n[1][Feature(after, 1)]
  + n[2][Feature(after, 2)] + n[3][Feature(after, 3)]
  + n[4][Feature(after, 4)] + n[5][Feature(after, 5)]
  + n[6][Feature(after, 6)] + n[7][Feature(after, 7)]

\* variant: the error is computed again before each of the 8 writes
RECURSIVE AdjustFrom(_, _, _, _, _)
AdjustFrom(n, a, after, target, i) ==
  IF i > 7 THEN n
  ELSE LET adjust == Mul(a, target - estimate_value(n, after))
       IN AdjustFrom([n EXCEPT ![i][Feature(after, i)] = @ + adjust],
                     a, after, target, i + 1)
adjust_valueRecomputed(n, a, after, target) == AdjustFrom(n, a, after, target, 0)

adjust_value(n, a, after, target) ==
  LET current == estimate_value(n, after)
      error == target - current
      adjust == Mul(a, error)
  IN [i \in 0..7 |-> [n[i] EXCEPT ![Feature(after, i)] = @ + adjust]]

\* init_weights: 8 tables, every entry 0
init_weights_on(F) == [i \in 0..7 |-> [f \in F |-> 0]]
init_weights == init_weights_on(Features)

\* load_weights: the tables as read from the file named by the load key
LoadKeys == {"absent", "half", "mixed", "low"}
load_weights_on(F, n, path) ==
  CASE path = "absent" -> n
    [] path = "half" ->
         [i \in 0..7 |-> [f \in F |-> IF i = 0 THEN Unit \div 2 ELSE 0]]
    [] path = "mixed" ->
         [i \in 0..7 |-> [f \in F |->
            IF i = 0 THEN (f % 5) * (3 * (Unit \div 4))
            ELSE IF i = 3 THEN (f % 2) * (Unit \div 2) ELSE 0]]
    [] path = "low" ->
         [i \in 0..7 |-> [f \in F |->
            IF i = 0 THEN ToFloat(-100000) ELSE 0]]
load_weights(n, path) == load_weights_on(Features, n, path)

\* the alpha key: given with a value, or not given
\* variant: a non-zero default learning rate
DefaultAlphaNonZero == Unit \div 8
DefaultAlpha == 0
Alphas == {0, Unit \div 8}
AlphaKeys ==
  {[given |-> FALSE, value |-> 0]} \cup {[given |-> TRUE, value |-> v] : v \in Alphas}
AlphaOf(key) == IF key.given THEN key.value ELSE DefaultAlpha

\* ---- take_action -------------------------------------------------------------
BestInit == [op |-> -1, reward |-> -1, value |-> -99999, after |-> EmptyBoard]

\* one iteration of the loop over op
ScanOp(n, before, op, best) ==
  LET s == SlideOf[before][op]
      value == estimate_value(n, s.after)
  IN IF s.reward = -1 THEN best
     ELSE IF ToFloat(s.reward) + value > ToFloat(best.reward + best.value)
          THEN [op |-> op, reward |-> s.reward, value |-> ToInt(value),
                after |-> s.after]
          ELSE best

Scan(n, before) ==
  ScanOp(n, before, 3,
    ScanOp(n, before, 2, ScanOp(n, before, 1, ScanOp(n, before, 0, BestInit))))

\* ---- close_episode -------------------------------------------------------------
\* the loop over t = size-2 .. 0 (t counts from 0 as in the code); log is the
\* sequence of adjust_value calls made so far
RECURSIVE Backward(_, _, _, _, _)
Backward(n, a, h, t, log) ==
  IF t < 0 THEN [net |-> n, log |-> log]
  ELSE LET target == ToFloat(h[t + 2].reward) + estimate_value(n, h[t + 2].after)
       IN Backward(adjust_value(n, a, h[t + 1].after, target), a, h, t - 1,
                   Append(log, [t |-> t, target |-> target]))

\* variant: every target is read from the weights at the entry of the pass
RECURSIVE BackwardBatch(_, _, _, _, _, _)
BackwardBatch(n0, n, a, h, t, log) ==
  IF t < 0 THEN [net |-> n, log |-> log]
  ELSE LET target == ToFloat(h[t + 2].reward) + estimate_value(n0, h[t + 2].after)
       IN BackwardBatch(n0, adjust_value(n, a, h[t + 1].after, target), a, h,
                        t - 1, Append(log, [t |-> t, target |-> target]))
TDPassBatch(n, a, h) ==
  IF h = <<>> THEN [net |-> n, log |-> <<>>]
  ELSE IF a = 0 THEN [net |-> n, log |-> <<>>]
  ELSE BackwardBatch(n, adjust_value(n, a, h[Len(h)].after, 0), a, h,
                     Len(h) - 2, <<[t |-> Len(h) - 1, target |-> 0]>>)

TDPass(n, a, h) ==
  IF h = <<>> THEN [net |-> n, log |-> <<>>]
  ELSE IF a = 0 THEN [net |-> n, log |-> <<>>]
  ELSE Backward(adjust_value(n, a, h[Len(h)].after, 0), a, h, Len(h) - 2,
                <<[t |-> Len(h) - 1, target |-> 0]>>)

\* ---- state ---------------------------------------------------------------------
VARIABLES
  net,       \* the weight tables
  alpha,     \* the learning rate
  meta,      \* the keys given to the constructor
  history,   \* the trajectory
  trained,   \* number of TD passes run so far
  calls,     \* number of take_action calls made so far
  call,      \* the last call made on the player and its argument
  ret,       \* the action returned by the last take_action
  pre,       \* net and history at the entry of the last call
  trace,     \* the adjust_value calls of the last close_episode, in order
  grid,      \* the board of the running episode, or the board under test
  out,       \* the last operation other than a call on the player, and its result
  game,      \* the driver: whose turn it is, what it did to the board so far
  file       \* the bytes of the saved weight file

playerVars == <<net, alpha, meta, history, trained, calls, call, ret, pre, trace>>
otherVars == <<grid, out, game, file>>
vars == <<net, alpha, meta, history, trained, calls, call, ret, pre, trace,
          grid, out, game, file>>

\* no episode is running, nothing is under test, no file is written
Idle ==
  /\ grid = EmptyBoard
  /\ out = [op |-> "none"]
  /\ game = [turn |-> "off"]
  /\ file = <<>>

\* player::player with the init key given, load and alpha as in the keys m
Construct(m) ==
  /\ meta = m
  /\ net = load_weights(init_weights, m.load)
  /\ alpha = AlphaOf(m.alpha)
  /\ history = <<>>
  /\ trained = 0
  /\ calls = 0
  /\ call = [op |-> "new"]
  /\ ret = NoAction
  /\ pre = [net |-> net, history |-> history]
  /\ trace = <<>>

Init ==
  /\ \E m \in [load : LoadKeys, alpha : AlphaKeys] : Construct(m)
  /\ Idle

take_action(before) ==
  /\ calls < MaxCalls
  /\ calls' = calls + 1
  /\ LET best == Scan(net, before)
     IN /\ history' = IF best.op # -1
                      THEN Append(history, [reward |-> best.reward,
                                            after |-> best.after])
                      ELSE history
        /\ ret' = ActionSlide(best.op)
  /\ call' = [op |-> "take_action", before |-> before]
  /\ pre' = [net |-> net, history |-> history]
  /\ UNCHANGED <<net, alpha, meta, trained, trace>>

\* variant: open_episode also resets the weight tables
open_episodeResetsWeights ==
  /\ history' = <<>>
  /\ net' = init_weights
  /\ call' = [op |-> "open_episode"]
  /\ pre' = [net |-> net, history |-> history]
  /\ UNCHANGED <<alpha, meta, trained, calls, ret, trace>>

open_episode ==
  /\ history' = <<>>
  /\ call' = [op |-> "open_episode"]
  /\ pre' = [net |-> net, history |-> history]
  /\ UNCHANGED <<net, alpha, meta, trained, calls, ret, trace>>

\* variant: close_episode clears the trajectory after the pass
close_episodeClears ==
  /\ (history # <<>> /\ alpha # 0) => trained < MaxTrain
  /\ LET r == TDPass(net, alpha, history)
     IN /\ net' = r.net
        /\ trace' = r.log
        /\ trained' = IF r.log = <<>> THEN trained ELSE trained + 1
  /\ history' = <<>>
  /\ call' = [op |-> "close_episode"]
  /\ pre' = [net |-> net, history |-> history]
  /\ UNCHANGED <<alpha, meta, calls, ret>>

close_episode ==
  /\ (history # <<>> /\ alpha # 0) => trained < MaxTrain
  /\ LET r == TDPass(net, alpha, history)
     IN /\ net' = r.net
        /\ trace' = r.log
        /\ trained' = IF r.log = <<>> THEN trained ELSE trained + 1
  /\ call' = [op |-> "close_episode"]
  /\ pre' = [net |-> net, history |-> history]
  /\ UNCHANGED <<alpha, meta, history, calls, ret>>

Next ==
  \/ \E before \in Boards : take_action(before) /\ UNCHANGED otherVars
  \/ open_episode /\ UNCHANGED otherVars
  \/ close_episode /\ UNCHANGED otherVars

Spec == Init /\ [][Next]_vars

\* ---- vocabulary of the properties ---------------------------------------------
Legal(b, op) == SlideOf[b][op].reward # -1
LegalOps(b) == {op \in 0..3 : Legal(b, op)}
StepOf(b, op) == [reward |-> SlideOf[b][op].reward, after |-> SlideOf[b][op].after]
\* reward(d) + estimate_value(after(d)), as a real number in fixed point
Score(n, b, op) == ToFloat(SlideOf[b][op].reward) + estimate_value(n, SlideOf[b][op].after)
BestOps(n, b) ==
  {d \in LegalOps(b) : \A e \in LegalOps(b) : Score(n, b, d) >= Score(n, b, e)}
Lowest(S) == CHOOSE x \in S : \A y \in S : x <= y
Returned(op) == call.op = op

\* C1: when at least one direction is legal, take_action returns slide(d) for a
\* legal direction d whose score reward(d) + estimate_value(after(d)) is at
\* least the score of every other legal direction, whatever the weights.
C1_ReturnsMaximalScore ==
  (Returned("take_action") /\ LegalOps(call.before) # {}) =>
     /\ ret.type = "slide"
     /\ ret.op \in BestOps(pre.net, call.before)

\* C2: when several legal directions share the maximal score, take_action
\* returns the lowest-numbered of them, whatever the weights (non-integer
\* value estimates included).
C2_TieLowestDirection ==
  (Returned("take_action") /\ Cardinality(BestOps(pre.net, call.before)) >= 2) =>
     ret = ActionSlide(Lowest(BestOps(pre.net, call.before)))

\* C3: when at least one direction is legal, take_action returns a slide
\* action for a legal direction and appends exactly one step, the reward and
\* resulting state of the returned direction, whatever the weights.
C3_LegalMoveRecorded ==
  (Returned("take_action") /\ LegalOps(call.before) # {}) =>
     /\ ret.type = "slide"
     /\ ret.op \in LegalOps(call.before)
     /\ history = Append(pre.history, StepOf(call.before, ret.op))

\* C4: when no direction is legal, take_action returns the none action, not a
\* slide action, and leaves the trajectory unchanged.
C4_NoLegalMoveReturnsNone ==
  (Returned("take_action") /\ LegalOps(call.before) = {}) =>
     /\ ret = NoAction
     /\ history = pre.history

\* C5: with learning rate 0 (alpha=0 given, or the alpha key absent), or with
\* an empty trajectory at any learning rate, close_episode leaves every entry
\* of every weight table as it was before the call.
RateZero == (meta.alpha.given /\ meta.alpha.value = 0) \/ ~meta.alpha.given
C5_EvaluationModeKeepsWeights ==
  (Returned("close_episode") /\ (RateZero \/ pre.history = <<>>)) => net = pre.net
C5_Witness ==
  /\ Returned("close_episode")
  /\ ~meta.alpha.given
  /\ Len(pre.history) >= 2
  /\ \E k \in 1..Len(pre.history) : pre.history[k].reward > 0

\* the weights after the first j logged updates of the last close_episode,
\* replayed from the weights at its entry
RECURSIVE Replay(_)
Replay(j) ==
  IF j = 0 THEN pre.net
  ELSE adjust_value(Replay(j - 1), alpha, pre.history[trace[j].t + 1].after,
                    trace[j].target)

\* C6: with n >= 1 steps and a non-zero learning rate, close_episode updates
\* the steps n-1, n-2, ..., 0 in this order, each once; the last step toward
\* target 0, each earlier step t toward reward[t+1] + estimate_value(state[t+1])
\* read from the weights as they stand after the updates of steps t+1..n-1.
C6_BackwardOrderCurrentWeights ==
  (Returned("close_episode") /\ pre.history # <<>> /\ alpha # 0) =>
     LET n == Len(pre.history)
     IN /\ Len(trace) = n
        /\ \A k \in 1..n : trace[k].t = n - k
        /\ trace[1].target = 0
        /\ \A k \in 2..n :
             trace[k].target =
               ToFloat(pre.history[trace[k].t + 2].reward)
               + estimate_value(Replay(k - 1), pre.history[trace[k].t + 2].after)
        /\ net = Replay(n)
\* a pass of two steps in which the first update changed the estimate that
\* the second update reads
C6_Witness ==
  /\ Returned("close_episode")
  /\ Len(trace) = 2
  /\ estimate_value(Replay(1), pre.history[2].after)
       # estimate_value(pre.net, pre.history[2].after)

\* C7: adjust_value(s, target) adds alpha * (target - estimate_value(s)),
\* computed once, to the 8 entries indexed by the features of s, one per
\* table, and to no other entry; the estimate of s moves by 8 times it.
Targets == {0, ToFloat(4), ToFloat(4) + Unit \div 2}
AdjustsEightEntries(n, s, target, n2) ==
  LET old == estimate_value(n, s)
      amount == Mul(alpha, target - old)
      after == n2
  IN /\ DOMAIN after = DOMAIN n
     /\ \A i \in 0..7 :
          /\ DOMAIN after[i] = DOMAIN n[i]
          /\ \A f \in Features :
               after[i][f] = n[i][f] + (IF f = Feature(s, i) THEN amount ELSE 0)
     /\ estimate_value(after, s) = old + 8 * amount
C7_SharedAdjustment ==
  /\ \A k \in 1..Len(history) : \A target \in Targets :
       AdjustsEightEntries(net, history[k].after, target,
                           adjust_value(net, alpha, history[k].after, target))
  /\ (Returned("close_episode") /\ Len(trace) = 1) =>
       AdjustsEightEntries(pre.net, pre.history[1].after, 0, net)
C7_Witness ==
  /\ Returned("close_episode")
  /\ Len(trace) = 1
  /\ net # pre.net

\* C8: the trajectory is the sequence of steps recorded since the last
\* open_episode: open_episode empties it, each take_action that found a legal
\* move appends one step at the end, earlier steps are never altered, and no
\* recorded step carries the illegal-move reward -1.
C8_TrajectoryIsEpisodeLog ==
  /\ Returned("open_episode") => history = <<>>
  /\ Returned("close_episode") => history = pre.history
  /\ Returned("take_action") =>
       IF LegalOps(call.before) # {}
       THEN /\ Len(history) = Len(pre.history) + 1
            /\ SubSeq(history, 1, Len(pre.history)) = pre.history
            /\ \E op \in LegalOps(call.before) :
                 history[Len(history)] = StepOf(call.before, op)
       ELSE history = pre.history
  /\ \A k \in 1..Len(history) : history[k].reward # -1

\* C9 as stated: once close_episode has returned, the trajectory is empty.
C9_CloseDiscardsTrajectory ==
  Returned("close_episode") => history = <<>>
\* C9 as amended: close_episode reads the trajectory and leaves it as it was,
\* steps included; it is emptied by open_episode.
C9_CloseKeepsTrajectory ==
  /\ Returned("close_episode") => history = pre.history
  /\ Returned("open_episode") => history = <<>>
C9_Witness ==
  /\ Returned("close_episode")
  /\ Len(history) >= 2
  /\ net # pre.net

\* C10: take_action and open_episode leave every entry of every weight table,
\* and the number and size of the tables, unchanged.
C10_OnlyTDUpdateWritesWeights ==
  (Returned("take_action") \/ Returned("open_episode")) =>
     /\ net = pre.net
     /\ DOMAIN net = 0..7
     /\ \A i \in 0..7 : DOMAIN net[i] = DOMAIN pre.net[i]
C10_Witness ==
  /\ Returned("take_action")
  /\ ret.op \in LegalOps(call.before)
  /\ trained > 0
  /\ net # init_weights

\* ==== the Move Engine and the Feature Extractor on boards under test ==========
MaxTile == 2        \* ranks of the tiles of the boards under test
\* a full board of distinct ranks up to 24
HighBoard == [c \in Cells |-> 24 - c]
\* the boards under test: any ranks <= MaxTile in the first row, the second
\* row empty or equal to the first, and two full boards
TestBoards ==
  {[c \in Cells |-> IF c < 4 THEN t[c] ELSE IF c < 8 /\ twice THEN t[c - 4] ELSE 0] :
     t \in [0..3 -> 0..MaxTile], twice \in BOOLEAN}
  \cup {FullBoard, HighBoard}

DefaultMeta == [load |-> "absent", alpha |-> [given |-> FALSE, value |-> 0]]

\* a board under test, nobody playing
InitBoard ==
  /\ Construct(DefaultMeta)
  /\ grid \in TestBoards
  /\ out = [op |-> "none"]
  /\ game = [turn |-> "off"]
  /\ file = <<>>

\* board::slide(d) on the board under test, which becomes the resulting state
SlideStep(d) ==
  /\ LET s == Slide(grid, d)
     IN /\ out' = [op |-> "slide", dir |-> d, before |-> grid, after |-> s.after,
                   reward |-> s.reward,
                   again |-> out.op = "slide" /\ out.dir = d]
        /\ grid' = s.after
  /\ UNCHANGED <<game, file>>
  /\ UNCHANGED playerVars

\* extract_feature on the board under test, for the tuple pattern of table i
FeatureStep(i) ==
  /\ out' = [op |-> "feature", i |-> i, before |-> grid, value |-> Feature(grid, i)]
  /\ UNCHANGED <<grid, game, file>>
  /\ UNCHANGED playerVars

NextBoard ==
  \/ \E d \in 0..3 : SlideStep(d)
  \/ \E i \in 0..7 : FeatureStep(i)

SpecBoard == InitBoard /\ [][NextBoard]_vars

\* ---- properties of the Move Engine and the Feature Extractor ------------------
Did(op) == out.op = op
LineOf(b, op, k) == [j \in 1..4 |-> b[LineCells(op, k)[j]]]
\* what one slide makes of a line, case by case on its tiles c in order
ExpectedLine(s) ==
  LET c == Compress(s)
      same == [line |-> c, reward |-> 0]
  IN CASE Len(c) <= 1 -> same
       [] Len(c) = 2 ->
            IF c[1] = c[2] THEN [line |-> <<c[1] + 1>>, reward |-> 2^(c[1] + 1)]
            ELSE same
       [] Len(c) = 3 ->
            IF c[1] = c[2]
            THEN [line |-> <<c[1] + 1, c[3]>>, reward |-> 2^(c[1] + 1)]
            ELSE IF c[2] = c[3]
            THEN [line |-> <<c[1], c[2] + 1>>, reward |-> 2^(c[2] + 1)]
            ELSE same
       [] Len(c) = 4 ->
            IF c[1] = c[2]
            THEN IF c[3] = c[4]
                 THEN [line |-> <<c[1] + 1, c[3] + 1>>,
                       reward |-> 2^(c[1] + 1) + 2^(c[3] + 1)]
                 ELSE [line |-> <<c[1] + 1, c[3], c[4]>>, reward |-> 2^(c[1] + 1)]
            ELSE IF c[2] = c[3]
            THEN [line |-> <<c[1], c[2] + 1, c[4]>>, reward |-> 2^(c[2] + 1)]
            ELSE IF c[3] = c[4]
            THEN [line |-> <<c[1], c[2], c[3] + 1>>, reward |-> 2^(c[3] + 1)]
            ELSE same
RowCompressed(b, r) == \A j \in 0..2 : b[4 * r + j] = 0 => b[4 * r + j + 1] = 0
EqualNeighboursInRow(b) ==
  \E r \in 0..3 : \E j \in 0..2 :
     b[4 * r + j] # 0 /\ b[4 * r + j] = b[4 * r + j + 1]
SecondSlideLeft == Did("slide") /\ out.dir = 3 /\ out.again

\* C11 as stated: a slide left right after a slide left, with no tile placed in
\* between, is always illegal (reward -1).
C11_SecondLeftIllegal ==
  SecondSlideLeft => out.reward = -1
\* C11 as amended: after a slide left every row is compressed toward index 0,
\* and a second slide left is illegal exactly when no row of that state holds
\* two equal adjacent tiles; otherwise it is legal and merges them.
C11_SecondLeftOnlyMerges ==
  SecondSlideLeft =>
     /\ \A r \in 0..3 : RowCompressed(out.before, r)
     /\ out.reward = -1 <=> ~EqualNeighboursInRow(out.before)
     /\ out.reward # -1 => out.reward > 0
C11_Witness ==
  /\ SecondSlideLeft
  /\ out.reward > 0

\* C12: in one slide a tile produced by a merge never merges again: each line
\* is compressed, each equal adjacent pair merged once scanning from index 0,
\* compressed again, and the reward is the sum of 2^(rank+1) over the merges
\* of the 4 lines; ranks [1,1,2,2] give [2,3,0,0] with reward 12.
C12_MergeOncePerTile ==
  /\ SlideLine(<<1, 1, 2, 2>>) = [line |-> <<2, 3, 0, 0>>, reward |-> 12]
  /\ Did("slide") =>
       LET want == [k \in 0..3 |-> ExpectedLine(LineOf(out.before, out.dir, k))]
           sum == want[0].reward + want[1].reward + want[2].reward + want[3].reward
       IN /\ \A k \in 0..3 : LineOf(out.after, out.dir, k) = Pad(want[k].line)
          /\ out.reward = IF out.after = out.before THEN -1 ELSE sum
C12_Witness ==
  /\ Did("slide")
  /\ out.dir = 3
  /\ LineOf(out.before, 3, 0) = <<1, 1, 2, 2>>
  /\ LineOf(out.before, 3, 1) = <<1, 1, 2, 2>>
  /\ LineOf(out.after, 3, 0) = <<2, 3, 0, 0>>
  /\ out.reward = 24

\* C13: slide reports illegal (reward -1) if and only if the resulting state
\* equals the input state in all 16 cells; a legal slide returns a reward >= 0.
C13_IllegalIffUnchanged ==
  Did("slide") =>
     /\ out.reward = -1 <=> (\A c \in Cells : out.after[c] = out.before[c])
     /\ out.reward # -1 => out.reward >= 0
C13_Witness ==
  /\ Did("slide")
  /\ out.reward = 0
  /\ out.after # out.before

\* C19: for a grid whose ranks are all below 25, extract_feature returns
\* rank(p0)*25^3 + rank(p1)*25^2 + rank(p2)*25 + rank(p3), inside 0..25^4-1,
\* from which the 4 ranks can be read back, so that two different 4-tuples of
\* ranks never give the same index.
C19_FeatureIsBase25Number ==
  (Did("feature") /\ \A c \in Cells : out.before[c] < 25) =>
     LET p == Tuples[out.i]
         r == [j \in 1..4 |-> out.before[p[j]]]
     IN /\ out.value = r[1] * 15625 + r[2] * 625 + r[3] * 25 + r[4]
        /\ out.value \in 0..390624
        /\ <<out.value \div 15625, (out.value \div 625) % 25,
             (out.value \div 25) % 25, out.value % 25>> = r
C19_Witness ==
  /\ Did("feature")
  /\ out.before = HighBoard
  /\ out.i = 0
  /\ out.value = 24 * 15625 + 23 * 625 + 22 * 25 + 21


\* ==== the random agents: rndenv and dummy_player ================================
\* every order std::shuffle may leave in `opcode`
OpOrders == {o \in [1..4 -> 0..3] : \A x, y \in 1..4 : x # y => o[x] # o[y]}

\* board(before).slide(op) for the boards under test, computed once
TestSlideOf == [b \in TestBoards |-> [op \in 0..3 |-> Slide(b, op)]]

\* the loop of dummy_player::take_action over the shuffled directions; each
\* direction is tried on a copy of the board
RECURSIVE dummyScan(_, _, _)
dummyScan(before, opcode, j) ==
  IF j > Len(opcode) THEN NoAction
  ELSE IF TestSlideOf[before][opcode[j]].reward # -1 THEN ActionSlide(opcode[j])
  ELSE dummyScan(before, opcode, j + 1)

\* variant: the first shuffled direction is returned untried
dummy_take_actionFirstOp(before, opcode) ==
  [act |-> ActionSlide(opcode[1]), board |-> before]
\* the action returned and the board the caller is left with
dummy_take_action(before, opcode) ==
  [act |-> dummyScan(before, opcode, 1), board |-> before]

\* rndenv::take_action on the board under test
EnvStep(space, popup) ==
  /\ out' = [op |-> "env", before |-> grid,
             act |-> rndenv_take_action(grid, space, popup)]
  /\ UNCHANGED <<grid, game, file>>
  /\ UNCHANGED playerVars

\* dummy_player::take_action on the board under test
DummyStep(opcode) ==
  /\ LET d == dummy_take_action(grid, opcode)
     IN /\ out' = [op |-> "dummy", before |-> grid, act |-> d.act]
        /\ grid' = d.board
  /\ UNCHANGED <<game, file>>
  /\ UNCHANGED playerVars

NextAgents ==
  \/ \E space \in Orders, popup \in Popups : EnvStep(space, popup)
  \/ \E opcode \in OpOrders : DummyStep(opcode)

SpecAgents == InitBoard /\ [][NextAgents]_vars

\* ---- properties of the random agents ------------------------------------------
EmptyCells(b) == {c \in Cells : b[c] = 0}

\* C16: for every grid state rndenv::take_action returns a place action whose
\* position is in 0..15 and is an empty cell of the given grid and whose tile
\* rank is 1 or 2 whenever a cell is empty, and returns the none action if and
\* only if no cell is empty
C16_PlacesOnEmptyCell ==
  Did("env") =>
    /\ EmptyCells(out.before) # {} =>
         /\ out.act.type = "place"
         /\ out.act.pos \in 0..15
         /\ out.act.pos \in EmptyCells(out.before)
         /\ out.act.tile \in {1, 2}
    /\ out.act = NoAction <=> EmptyCells(out.before) = {}
    /\ out.act.type = "place" => out.before[out.act.pos] = 0
C16_Witness ==
  /\ Did("env")
  /\ out.act.type = "place"
  /\ out.act.tile = 2
  /\ out.act.pos > 0
  /\ Cardinality(EmptyCells(out.before)) < 15

\* C20: for every grid state and every shuffle dummy_player::take_action
\* returns slide(op) only for a direction op in 0..3 that is legal on the given
\* grid, returns the none action if and only if no direction is legal, and
\* leaves the grid it was given as it was
C20_DummyReturnsLegalSlide ==
  Did("dummy") =>
    /\ out.act.type = "slide" =>
         /\ out.act.op \in 0..3
         /\ Slide(out.before, out.act.op).reward # -1
    /\ out.act.type \in {"slide", "none"}
    /\ out.act = NoAction <=> \A d \in 0..3 : Slide(out.before, d).reward = -1
    /\ grid = out.before
C20_Witness ==
  /\ Did("dummy")
  /\ out.act.type = "slide"
  /\ \E d \in 0..3 : Slide(out.before, d).reward = -1
  /\ out.act.op > 0

\* ==== the weight file: save_weights and load_weights ============================
MaxSize == 2        \* tables of a stored Weight Store, and entries of a table
\* the values of the entries of the stores under test: 0 and -0.5
StoreValues == {0, -(Unit \div 2)}
\* a table is the sequence of its entries, a store the sequence of its tables
TablesUpTo(k) == UNION {[1..len -> StoreValues] : len \in 0..k}
Stores == UNION {[1..len -> TablesUpTo(MaxSize)] : len \in 0..MaxSize}
\* a store as init_weights allocates it, and a store never allocated
PriorStores == {[i \in 1..MaxSize + 1 |-> [j \in 1..MaxSize |-> 0]], <<>>}

\* a float as the 32-bit word written to the file: sign bit and magnitude
SignBit == 2^30
FloatWord(v) == IF v < 0 THEN SignBit + (0 - v) ELSE v
WordFloat(w) == IF w >= SignBit THEN 0 - (w - SignBit) ELSE w

\* out << w: the entry count, then the entries
WriteWeight(w) == <<Len(w)>> \o [j \in 1..Len(w) |-> FloatWord(w[j])]
\* in >> w from the word at position pos on: the entry count, then the entries
ReadWeight(f, pos) ==
  [value |-> [j \in 1..f[pos] |-> WordFloat(f[pos + j])], next |-> pos + 1 + f[pos]]

RECURSIVE WriteWeights(_, _)
WriteWeights(n, i) == IF i > Len(n) THEN <<>> ELSE WriteWeight(n[i]) \o WriteWeights(n, i + 1)
\* save_weights: the table count, then every table
save_weights(n) == <<Len(n)>> \o WriteWeights(n, 1)

\* net.resize(size): the first tables are kept, new ones are empty
Resize(n, size) == [i \in 1..size |-> IF i <= Len(n) THEN n[i] ELSE <<>>]
RECURSIVE ReadWeights(_, _, _, _)
ReadWeights(n, f, i, pos) ==
  IF i > Len(n) THEN n
  ELSE LET r == ReadWeight(f, pos)
       IN ReadWeights([n EXCEPT ![i] = r.value], f, i + 1, r.next)
\* variant: the tables the store holds beyond those of the file are kept
load_fileKeepsTables(n, f) ==
  ReadWeights(Resize(n, f[1]), f, 1, 2)
    \o (IF Len(n) > f[1] THEN SubSeq(n, f[1] + 1, Len(n)) ELSE <<>>)
\* load_weights from the opened file f into the store n
load_file(n, f) == ReadWeights(Resize(n, f[1]), f, 1, 2)

\* a store under test, in a player that has written no file yet
InitStore ==
  /\ net \in Stores
  /\ meta = DefaultMeta
  /\ alpha = DefaultAlpha
  /\ history = <<>>
  /\ trained = 0
  /\ calls = 0
  /\ call = [op |-> "new"]
  /\ ret = NoAction
  /\ pre = [net |-> net, history |-> history]
  /\ trace = <<>>
  /\ grid = EmptyBoard
  /\ out = [op |-> "none", saved |-> <<>>]
  /\ game = [turn |-> "off"]
  /\ file = <<>>

\* save_weights(path): the file is truncated and written
SaveStep ==
  /\ file' = save_weights(net)
  /\ out' = [op |-> "save", saved |-> net]
  /\ UNCHANGED <<net, meta, alpha, history, trained, calls, call, ret, pre, trace>>
  /\ UNCHANGED <<grid, game>>

\* another player is constructed: the store holds what its constructor left
NewPlayerStep(n) ==
  /\ net' = n
  /\ out' = [op |-> "new", saved |-> out.saved]
  /\ UNCHANGED <<meta, alpha, history, trained, calls, call, ret, pre, trace>>
  /\ UNCHANGED <<grid, game, file>>

\* load_weights(path) of the file written before
LoadStep ==
  /\ file # <<>>
  /\ net' = load_file(net, file)
  /\ out' = [op |-> "load", saved |-> out.saved, prior |-> net]
  /\ UNCHANGED <<meta, alpha, history, trained, calls, call, ret, pre, trace>>
  /\ UNCHANGED <<grid, game, file>>

NextStore ==
  \/ SaveStep
  \/ \E n \in PriorStores : NewPlayerStep(n)
  \/ LoadStep

SpecStore == InitStore /\ [][NextStore]_vars

\* C17: save_weights followed by load_weights of the same file reproduces the
\* Weight Store: the same number of tables, the same entry count per table and
\* the same value at every index of every table, whatever the store held before
\* the load
C17_SaveLoadRoundTrip ==
  Did("load") =>
    /\ Len(net) = Len(out.saved)
    /\ \A i \in 1..Len(out.saved) :
         /\ Len(net[i]) = Len(out.saved[i])
         /\ \A j \in 1..Len(out.saved[i]) : net[i][j] = out.saved[i][j]
C17_Witness ==
  /\ Did("load")
  /\ Len(out.prior) > Len(net)
  /\ Len(net) = 2
  /\ Len(net[1]) # Len(net[2])
  /\ \E j \in 1..Len(net[2]) : net[2][j] < 0

\* ==== the constructor with any of its keys given or not ==========================
\* the keys of the construction string: init, load, alpha and save, each given
\* or not; save is consulted by the destructor only
KeyLoads == {"absent", "half"}
Keys == [init : BOOLEAN, load : KeyLoads, alpha : AlphaKeys, save : BOOLEAN]

\* player::player: init_weights only if init is given, load_weights only if load
\* is given; net starts as an empty vector
ConstructKeys(m) ==
  /\ meta = m
  /\ net = load_weights(IF m.init THEN init_weights ELSE <<>>, m.load)
  /\ alpha = AlphaOf(m.alpha)
  /\ history = <<>>
  /\ trained = 0
  /\ calls = 0
  /\ call = [op |-> "new"]
  /\ ret = NoAction
  /\ pre = [net |-> net, history |-> history]
  /\ trace = <<>>

InitKeys ==
  /\ \E m \in Keys : ConstructKeys(m)
  /\ Idle

\* net[0] .. net[7] exist
Allocated == DOMAIN net = 0..7
\* the process has not been killed
Running == call.op # "crash"
\* what reads outside the store may yield: the entries of any of the stores
GarbageNets == {load_weights(init_weights, k) : k \in LoadKeys}

\* take_action on a store without tables: for a legal direction estimate_value
\* reads net[0] .. net[7] outside the empty vector, which is undefined; the
\* process is killed, or the reads yield some values and the call goes on
take_actionUnallocated(before) ==
  /\ ~Allocated
  /\ calls < MaxCalls
  /\ calls' = calls + 1
  /\ pre' = [net |-> net, history |-> history]
  /\ \/ /\ \E op \in 0..3 : SlideOf[before][op].reward # -1
        /\ call' = [op |-> "crash"]
        /\ UNCHANGED <<history, ret>>
     \/ /\ call' = [op |-> "take_action", before |-> before]
        /\ \E n \in GarbageNets :
             LET best == Scan(n, before)
             IN /\ history' = IF best.op # -1
                              THEN Append(history, [reward |-> best.reward,
                                                    after |-> best.after])
                              ELSE history
                /\ ret' = ActionSlide(best.op)
  /\ UNCHANGED <<net, alpha, meta, trained, trace>>

\* close_episode on a store without tables, with a trajectory and a non-zero
\* rate: adjust_value writes outside the empty vector, which is undefined; the
\* process is killed, or the writes fall outside the store and the call returns
close_episodeUnallocated ==
  /\ ~Allocated
  /\ history # <<>>
  /\ alpha # 0
  /\ trained < MaxTrain
  /\ pre' = [net |-> net, history |-> history]
  /\ \/ /\ call' = [op |-> "crash"]
        /\ UNCHANGED trained
     \/ /\ call' = [op |-> "close_episode"]
        /\ trained' = trained + 1
  /\ UNCHANGED <<net, alpha, meta, history, calls, ret, trace>>

NextKeys ==
  \/ \E before \in Boards :
       Running /\ Allocated /\ take_action(before) /\ UNCHANGED otherVars
  \/ \E before \in Boards :
       Running /\ take_actionUnallocated(before) /\ UNCHANGED otherVars
  \/ Running /\ open_episode /\ UNCHANGED otherVars
  \/ Running /\ (Allocated \/ history = <<>> \/ alpha = 0) /\ close_episode
       /\ UNCHANGED otherVars
  \/ Running /\ close_episodeUnallocated /\ UNCHANGED otherVars

SpecKeys == InitKeys /\ [][NextKeys]_vars

\* C18: after a Learning Player is constructed, for every combination of the
\* init, load, alpha and save keys given or not, its Weight Store holds 8 tables
\* with an entry for every feature index, and open_episode, take_action and
\* close_episode never change the number or the size of the tables, so every
\* lookup made by estimate_value and adjust_value is inside an allocated table
C18_EightTablesAlways ==
  /\ DOMAIN net = 0..7
  /\ \A i \in DOMAIN net : DOMAIN net[i] = Features

\* ==== an episode: the driver alternates the player and the environment ==========
\* the feature indices the player looks up on the boards of an episode
GameFeatures ==
  {Feature(SlideOf[b][op].after, i) : b \in GameBoards, op \in 0..3, i \in 0..7}

\* player::player with the init key given and load as in the keys m, the tables
\* seen at the feature indices of the episode
ConstructGame(m) ==
  /\ meta = m
  /\ net = load_weights_on(GameFeatures, init_weights_on(GameFeatures), m.load)
  /\ alpha = AlphaOf(m.alpha)
  /\ history = <<>>
  /\ trained = 0
  /\ calls = 0
  /\ call = [op |-> "new"]
  /\ ret = NoAction
  /\ pre = [net |-> net, history |-> history]
  /\ trace = <<>>

\* an episode starts on a grid with two tiles, the player to move; or it is
\* followed from a late grid on, the environment to move
InitGame ==
  /\ \E load \in LoadKeys : ConstructGame([DefaultMeta EXCEPT !.load = load])
  /\ \/ /\ grid \in StartGrids
        /\ game = [turn |-> "player", start |-> "two", invoked |-> {}, placed |-> {}]
     \/ /\ grid = NearFull
        /\ game = [turn |-> "env", start |-> "late", invoked |-> {}, placed |-> {}]
  /\ out = [op |-> "none"]
  /\ file = <<>>

\* what the Move Engine may answer to direction d on grid b: section 4.1 of the
\* specification defines the slide for the directions 0..3 only, so any other
\* direction is refused or taken for one of the four
EngineOutcomes(b, d) ==
  IF d \in 0..3 THEN {SlideOf[b][d]}
  ELSE {[after |-> b, reward |-> -1]} \cup {SlideOf[b][e] : e \in 0..3}

\* the player's turn: take_action on the grid, and the driver applies the
\* action returned; the episode ends when no slide is made
PlayerTurn ==
  /\ game.turn = "player"
  /\ take_action(grid)
  /\ IF ret'.type = "slide"
     THEN \E s \in EngineOutcomes(grid, ret'.op) :
            /\ grid' = s.after
            /\ game' = [game EXCEPT !.turn = IF s.reward = -1 THEN "over" ELSE "env",
                                    !.invoked = @ \cup {ret'.op}]
     ELSE /\ grid' = grid
          /\ game' = [game EXCEPT !.turn = "over"]
  /\ UNCHANGED <<out, file>>

\* the environment's turn: rndenv::take_action on the grid, and the driver
\* applies the action returned
EnvTurn(space, popup) ==
  /\ game.turn = "env"
  /\ LET a == rndenv_take_action(grid, space, popup)
     IN IF a.type = "place"
        THEN /\ grid' = Place(grid, a.pos, a.tile)
             /\ game' = [game EXCEPT !.turn = "player", !.placed = @ \cup {a.pos}]
        ELSE /\ grid' = grid
             /\ game' = [game EXCEPT !.turn = "over"]
  /\ UNCHANGED <<out, file>>
  /\ UNCHANGED playerVars

NextGame ==
  \/ PlayerTurn
  \/ \E space \in GameOrders, popup \in GamePopups : EnvTurn(space, popup)

SpecGame == InitGame /\ [][NextGame]_vars

\* ---- properties of an episode ---------------------------------------------------
\* C14: starting from a grid with exactly two tiles, every run that alternates
\* player turns and environment turns, for any weights and any random choices
\* of the environment, ends the episode only in a state where the player has
\* no legal move
C14_EpisodeEndsWithoutLegalMove ==
  (game.turn = "over" /\ game.start = "two") =>
    \A d \in 0..3 : Slide(grid, d).reward = -1

\* C15: in every run that alternates player turns and environment turns and
\* applies each returned action to the grid, the last turn of the player
\* included, the Move Engine is never invoked with a direction outside 0..3
\* and no tile is placed at a position outside 0..15
C15_EngineArgumentsInRange ==
  game.turn # "off" =>
    /\ game.invoked \subseteq 0..3
    /\ game.placed \subseteq 0..15
====
